---- MODULE Spec2Model ----
(***************************************************************************)
(* Tower of Madness: the clock oracle of the Colyseus server and the       *)
(* participant session of the scene (round state machine, attempt state    *)
(* machine, zone detection, per-frame systems, authority callbacks).       *)
(*                                                                         *)
(* Times are integers in milliseconds (Date.now()).  The code divides by   *)
(* 1000 to get seconds as a real number; the model keeps the millisecond   *)
(* value instead, so roundTimer, attemptTimer, attemptFinishTime and       *)
(* bestAttemptTime are in milliseconds and a comparison "x / 1000 >= 3"    *)
(* is written "x >= 3 * 1000".                                             *)
(***************************************************************************)
EXTENDS Integers, Sequences, FiniteSets, TLC

\* ---------------------------------------------------------------------
\* Program constants
\* ---------------------------------------------------------------------
ROUND_DURATION == 420
BREAK_DURATION == 10
TOTAL_CYCLE == ROUND_DURATION + BREAK_DURATION
ENDING_DISPLAY == 3
HEIGHT_UPDATE_INTERVAL == 500

\* ---------------------------------------------------------------------
\* Bounds of the model
\* ---------------------------------------------------------------------
MaxFrames == 4
MaxBroadcasts == 1
MaxEpoch == 900
\* Frames of a connected session followed over several attempts.
MaxSessionFrames == 5
\* Epoch second up to which a standalone session is followed for progress.
LiveHorizon == 1920

\* Frame intervals of the engine (ms between two frames) explored while the
\* session drives its own round: the ending display, the break, a whole round.
Deltas == {ENDING_DISPLAY * 1000, BREAK_DURATION * 1000, ROUND_DURATION * 1000}
\* Frame intervals explored while the authority drives the round.
ConnectedDeltas == {250, ENDING_DISPLAY * 1000}
\* Where the player stands: inside one of the three trigger boxes (taken to be
\* disjoint boxes of the scene) or outside all of them.
Zones == {"None", "Start", "End", "Death"}
\* Player transforms explored, as <<zone, position.y>>: on the ground or up the
\* tower outside the boxes, at the start and death boxes on the ground, at the
\* end box up the tower.
\* Frame intervals and player transforms explored while the connection
\* attempt is pending.
PendingDeltas == {ENDING_DISPLAY * 1000}
PendingPositions == {<<"None", 1>>, <<"Start", 0>>}
Positions == {<<"None", 0>>, <<"None", 1>>, <<"Start", 0>>, <<"End", 1>>, <<"Death", 0>>}
\* Date.now() at module load: the first instant of a round, and an instant
\* inside the break of a round.
BootTimes == {TOTAL_CYCLE * 1000, 2 * TOTAL_CYCLE * 1000 - 5000}
\* Payloads of the authority's broadcasts.
Boards == {<<"p1">>}
TimerUpdates == {<<0, 1>>, <<100, 2>>}

Max(a, b) == IF a >= b THEN a ELSE b

VARIABLES
  \* server process
  serverNow, info, roomResult, createRoomCalls, errorLogged, running,
  \* scene: clock and position in the frame loop
  now, pc, frames,
  \* multiplayer state
  isMultiplayerMode, serverConnected,
  \* global round state
  roundState, roundTimer, roundSpeedMultiplier, roundStartTime, roundFinishers,
  leaderboard, roundWinners,
  \* attempt state
  attemptState, attemptStartTime, attemptTimer, attemptFinishTime,
  bestAttemptTime, bestAttemptHeight,
  attemptResult, resultMessage, resultTimestamp,
  \* player tracking
  playerHeight, playerMaxHeight, lastHeightUpdateTime,
  \* the player entity's transform: trigger box it is in, position.y
  playerZone, playerY,
  \* trigger detection
  inTriggerStart, inTriggerEnd, inTriggerDeath,
  \* upstream messages sent during the current frame, broadcasts received so far
  outbox, broadcasts,
  \* history
  entered, prevAttemptState, phaseSince, lastTickTime, finishesThisRound, everFinished

serverVars == <<serverNow, info, roomResult, createRoomCalls, errorLogged, running>>
loopVars == <<now, pc, frames>>
mpVars == <<isMultiplayerMode, serverConnected>>
roundVars == <<roundState, roundTimer, roundSpeedMultiplier, roundStartTime,
               roundFinishers, leaderboard, roundWinners>>
attemptVars == <<attemptState, attemptStartTime, attemptTimer, attemptFinishTime,
                 bestAttemptTime, bestAttemptHeight>>
resultVars == <<attemptResult, resultMessage, resultTimestamp>>
trackVars == <<playerHeight, playerMaxHeight, lastHeightUpdateTime>>
triggerVars == <<inTriggerStart, inTriggerEnd, inTriggerDeath>>
posVars == <<playerZone, playerY>>
netVars == <<outbox, broadcasts>>
histVars == <<entered, prevAttemptState, phaseSince, lastTickTime, finishesThisRound,
              everFinished>>

vars == <<serverVars, loopVars, mpVars, roundVars, attemptVars, resultVars,
          trackVars, posVars, triggerVars, netVars, histVars>>

\* ---------------------------------------------------------------------
\* Clock oracle (server): Date.now() in ms -> round info
\* ---------------------------------------------------------------------
\* The oracle with the break starting one second late (> for >=).
getCurrentRoundInfo_LateBreak(dateNow) ==
  LET nowSec == dateNow \div 1000
      roundNumber == nowSec \div TOTAL_CYCLE
      cycleProgress == nowSec % TOTAL_CYCLE
      isBreak == cycleProgress > ROUND_DURATION
      remainingTime == IF isBreak THEN TOTAL_CYCLE - cycleProgress
                       ELSE ROUND_DURATION - cycleProgress
  IN [roundNumber |-> roundNumber, isBreak |-> isBreak, remainingTime |-> remainingTime]

getCurrentRoundInfo(dateNow) ==
  LET nowSec == dateNow \div 1000
      roundNumber == nowSec \div TOTAL_CYCLE
      cycleProgress == nowSec % TOTAL_CYCLE
      isBreak == cycleProgress >= ROUND_DURATION
      remainingTime == IF isBreak THEN TOTAL_CYCLE - cycleProgress
                       ELSE ROUND_DURATION - cycleProgress
  IN [roundNumber |-> roundNumber, isBreak |-> isBreak, remainingTime |-> remainingTime]

NoInfo == [at |-> -1, roundNumber |-> -1, isBreak |-> FALSE, remainingTime |-> -1]

\* State of the scene module after its top-level declarations have run.
SceneInit ==
  /\ now \in BootTimes
  /\ pc = "boot"
  /\ frames = 0
  /\ isMultiplayerMode = FALSE
  /\ serverConnected = FALSE
  /\ roundState = "ACTIVE"
  /\ roundTimer = 420 * 1000
  /\ roundSpeedMultiplier = 1
  /\ roundStartTime = now
  /\ roundFinishers = 0
  /\ leaderboard = <<>>
  /\ roundWinners = <<>>
  /\ attemptState = "NOT_STARTED"
  /\ attemptStartTime = 0
  /\ attemptTimer = 0
  /\ attemptFinishTime = 0
  /\ bestAttemptTime = 0
  /\ bestAttemptHeight = 0
  /\ attemptResult = "null"
  /\ resultMessage = ""
  /\ resultTimestamp = 0
  /\ playerHeight = 0
  /\ playerMaxHeight = 0
  /\ lastHeightUpdateTime = 0
  /\ inTriggerStart = FALSE
  /\ inTriggerEnd = FALSE
  /\ inTriggerDeath = FALSE
  /\ playerZone = "None"
  /\ playerY = 0
  /\ outbox = {}
  /\ broadcasts = 0
  /\ entered = "None"
  /\ prevAttemptState = "NOT_STARTED"
  /\ phaseSince = now
  /\ lastTickTime = -1
  /\ finishesThisRound = 0
  /\ everFinished = FALSE

\* The server process after httpServer.listen: the room creation is scheduled.
ServerStart ==
  /\ info = NoInfo
  /\ roomResult = "scheduled"
  /\ createRoomCalls = 0
  /\ errorLogged = FALSE
  /\ running = TRUE

Init ==
  /\ serverNow = 0
  /\ ServerStart
  /\ SceneInit

\* ---------------------------------------------------------------------
\* Server process: the status endpoint applies the clock oracle
\* ---------------------------------------------------------------------
ServerTimes == {s * 1000 + f : s \in 0..MaxEpoch, f \in {0, 999}}

InitServer ==
  /\ serverNow \in ServerTimes
  /\ ServerStart
  /\ SceneInit

sceneVars == <<loopVars, mpVars, roundVars, attemptVars, resultVars,
               trackVars, posVars, triggerVars, netVars, histVars>>

\* app.get('/'): compute the round info of the current instant.
HealthCheck ==
  /\ running
  /\ info = NoInfo
  /\ LET r == getCurrentRoundInfo(serverNow)
     IN info' = [at |-> serverNow, roundNumber |-> r.roundNumber,
                 isBreak |-> r.isBreak, remainingTime |-> r.remainingTime]
  /\ UNCHANGED <<serverNow, roomResult, createRoomCalls, errorLogged, running, sceneVars>>

\* The room creation trying again after a failure.
CreateRoom_Retry(outcome) ==
  /\ running
  /\ roomResult = "scheduled"
  /\ serverNow' = serverNow + 1000
  /\ createRoomCalls' = createRoomCalls + 1
  /\ IF outcome = "throws"
     THEN /\ roomResult' = "scheduled"
          /\ errorLogged' = TRUE
     ELSE /\ roomResult' = "created"
          /\ UNCHANGED errorLogged
  /\ UNCHANGED <<info, running, sceneVars>>

\* The setTimeout callback of the listen callback, 1000 ms after the server
\* started listening: one call of matchMaker.createRoom, whose failure is
\* caught and logged.
CreateRoom(outcome) ==
  /\ running
  /\ roomResult = "scheduled"
  /\ serverNow' = serverNow + 1000
  /\ createRoomCalls' = createRoomCalls + 1
  /\ IF outcome = "throws"
     THEN /\ roomResult' = "failed"
          /\ errorLogged' = TRUE
     ELSE /\ roomResult' = "created"
          /\ UNCHANGED errorLogged
  /\ UNCHANGED <<info, running, sceneVars>>

NextServer ==
  \/ HealthCheck
  \/ \E outcome \in {"created", "throws"} : CreateRoom(outcome)

SpecServer == InitServer /\ [][NextServer]_vars

\* ---------------------------------------------------------------------
\* Scene: history bookkeeping shared by all actions
\* ---------------------------------------------------------------------
\* Instant at which roundState last changed its value.
PhaseHist == phaseSince' = IF roundState' # roundState THEN now' ELSE phaseSince
\* Value of attemptState before its last change.
AttemptHist == prevAttemptState' =
                 IF attemptState' # attemptState THEN attemptState ELSE prevAttemptState

\* A round-boundary reset: startNewRound in a timer tick, or the TowerReady
\* broadcast; both announce the new round in resultMessage.
RoundReset ==
  \/ pc = "timer" /\ resultMessage' = "NewRoundStarted" /\ resultTimestamp' = now
  \/ broadcasts' = broadcasts + 1 /\ resultMessage' = "NewRound"
\* Finishes of this player accepted since the last round-boundary reset, and
\* whether one was accepted since the scene was loaded.
FinishHist ==
  /\ finishesThisRound' =
       IF RoundReset THEN 0
       ELSE IF attemptState # "FINISHED" /\ attemptState' = "FINISHED"
       THEN finishesThisRound + 1
       ELSE finishesThisRound
  /\ everFinished' = (everFinished \/ (attemptState # "FINISHED" /\ attemptState' = "FINISHED"))

\* ---------------------------------------------------------------------
\* main(): multiplayer initialisation with fallback, initial round state
\* ---------------------------------------------------------------------
\* getRoundInfo() of the multiplayer module: the clock oracle at Date.now().
getRoundInfo == getCurrentRoundInfo(now)


\* The engine runs a frame while main() is suspended at "await
\* initMultiplayer()": the systems are registered further down in main(), so
\* the frame runs none of them; the clock and the player move on.
PendingFrame(d, zone, y) ==
  /\ pc = "boot"
  /\ frames < MaxFrames
  /\ now' = now + d
  /\ frames' = frames + 1
  /\ playerZone' = zone
  /\ playerY' = y
  /\ UNCHANGED <<serverVars, pc, mpVars, roundVars, attemptVars, resultVars, trackVars,
                 triggerVars, netVars, histVars>>

\* outcome: what initMultiplayer() did; roundInfoThrows: getRoundInfo() threw;
\* initError: generateTowerFromServer() threw (the outer catch).
Main(outcome, roundInfoThrows, initError) ==
  /\ pc = "boot"
  /\ LET initialRound == IF roundInfoThrows
                         THEN [roundNumber |-> (now \div 1000) \div 430,
                               isBreak |-> FALSE, remainingTime |-> 420]
                         ELSE getRoundInfo
     IN IF initError
        THEN /\ isMultiplayerMode' = FALSE
             /\ roundState' = "ACTIVE"
             /\ roundTimer' = 420 * 1000
        ELSE /\ isMultiplayerMode' = (outcome # "throws")
             /\ roundState' = IF initialRound.isBreak THEN "BREAK" ELSE "ACTIVE"
             /\ roundTimer' = initialRound.remainingTime * 1000
  /\ serverConnected' = (outcome = "connected")
  /\ outbox' = IF outcome = "connected" THEN {"PlayerJoined"} ELSE {}
  /\ pc' = "idle"
  /\ UNCHANGED <<now, frames, serverVars, broadcasts>>
  /\ UNCHANGED <<roundSpeedMultiplier, roundStartTime, roundFinishers, leaderboard, roundWinners>>
  /\ UNCHANGED <<attemptVars, resultVars, trackVars, posVars, triggerVars>>
  /\ UNCHANGED <<entered, lastTickTime>>
  /\ AttemptHist
  /\ PhaseHist
  /\ FinishHist

\* ---------------------------------------------------------------------
\* Round management
\* ---------------------------------------------------------------------
\* startNewRound without the reset of the player attempt state.
startNewRound_KeepAttempt ==
  /\ roundState' = "ACTIVE"
  /\ roundTimer' = 420 * 1000
  /\ roundSpeedMultiplier' = 1
  /\ roundStartTime' = now
  /\ roundFinishers' = 0
  /\ roundWinners' = <<>>
  /\ leaderboard' = <<>>
  /\ attemptTimer' = 0
  /\ playerMaxHeight' = 0
  /\ attemptResult' = "null"
  /\ resultMessage' = "NewRoundStarted"
  /\ resultTimestamp' = now
  /\ UNCHANGED <<attemptState, attemptStartTime, attemptFinishTime, bestAttemptTime,
                 bestAttemptHeight>>
  /\ UNCHANGED <<playerHeight, lastHeightUpdateTime>>

startNewRound ==
  /\ roundState' = "ACTIVE"
  /\ roundTimer' = 420 * 1000
  /\ roundSpeedMultiplier' = 1
  /\ roundStartTime' = now
  /\ roundFinishers' = 0
  /\ roundWinners' = <<>>
  /\ leaderboard' = <<>>
  /\ attemptState' = "NOT_STARTED"
  /\ attemptTimer' = 0
  /\ playerMaxHeight' = 0
  /\ attemptResult' = "null"
  /\ resultMessage' = "NewRoundStarted"
  /\ resultTimestamp' = now
  /\ UNCHANGED <<attemptStartTime, attemptFinishTime, bestAttemptTime, bestAttemptHeight>>
  /\ UNCHANGED <<playerHeight, lastHeightUpdateTime>>

endRound ==
  /\ roundState' = "ENDING"
  /\ resultMessage' = "RoundComplete"
  /\ resultTimestamp' = now

\* ---------------------------------------------------------------------
\* Player attempt functions
\* ---------------------------------------------------------------------
\* Date.now() as read by the trigger handlers: the time of the frame in which
\* the trigger detection system runs them.
DateNow == now'

\* startAttempt without the "already finished" guard.
startAttempt_RestartFinished ==
  IF roundState # "ACTIVE"
  THEN UNCHANGED <<attemptVars, resultVars, playerMaxHeight>>
  ELSE /\ attemptState' = "IN_PROGRESS"
       /\ attemptStartTime' = DateNow
       /\ attemptTimer' = 0
       /\ playerMaxHeight' = playerHeight
       /\ attemptResult' = "null"
       /\ resultMessage' = "Go"
       /\ resultTimestamp' = DateNow
       /\ UNCHANGED <<attemptFinishTime, bestAttemptTime, bestAttemptHeight>>

\* startAttempt without the "round is active" guard.
startAttempt_AnyPhase ==
  IF attemptState = "FINISHED"
  THEN /\ resultMessage' = "AlreadyFinished"
       /\ resultTimestamp' = DateNow
       /\ UNCHANGED <<attemptVars, attemptResult, playerMaxHeight>>
  ELSE /\ attemptState' = "IN_PROGRESS"
       /\ attemptStartTime' = DateNow
       /\ attemptTimer' = 0
       /\ playerMaxHeight' = playerHeight
       /\ attemptResult' = "null"
       /\ resultMessage' = "Go"
       /\ resultTimestamp' = DateNow
       /\ UNCHANGED <<attemptFinishTime, bestAttemptTime, bestAttemptHeight>>

\* startAttempt that only refuses to start during the break.
startAttempt_EndingAllowed ==
  IF roundState = "BREAK"
  THEN UNCHANGED <<attemptVars, resultVars, playerMaxHeight>>
  ELSE IF attemptState = "FINISHED"
  THEN /\ resultMessage' = "AlreadyFinished"
       /\ resultTimestamp' = DateNow
       /\ UNCHANGED <<attemptVars, attemptResult, playerMaxHeight>>
  ELSE /\ attemptState' = "IN_PROGRESS"
       /\ attemptStartTime' = DateNow
       /\ attemptTimer' = 0
       /\ playerMaxHeight' = playerHeight
       /\ attemptResult' = "null"
       /\ resultMessage' = "Go"
       /\ resultTimestamp' = DateNow
       /\ UNCHANGED <<attemptFinishTime, bestAttemptTime, bestAttemptHeight>>

startAttempt ==
  IF roundState # "ACTIVE"
  THEN UNCHANGED <<attemptVars, resultVars, playerMaxHeight>>
  ELSE IF attemptState = "FINISHED"
  THEN /\ resultMessage' = "AlreadyFinished"
       /\ resultTimestamp' = DateNow
       /\ UNCHANGED <<attemptVars, attemptResult, playerMaxHeight>>
  ELSE /\ attemptState' = "IN_PROGRESS"
       /\ attemptStartTime' = DateNow
       /\ attemptTimer' = 0
       /\ playerMaxHeight' = playerHeight
       /\ attemptResult' = "null"
       /\ resultMessage' = "Go"
       /\ resultTimestamp' = DateNow
       /\ UNCHANGED <<attemptFinishTime, bestAttemptTime, bestAttemptHeight>>

\* finishAttempt without the "attempt in progress" guard.
finishAttempt_AnyAttempt ==
  IF roundState # "ACTIVE"
  THEN UNCHANGED <<attemptVars, resultVars, roundFinishers, roundSpeedMultiplier, outbox>>
  ELSE /\ attemptState' = "FINISHED"
       /\ attemptFinishTime' = attemptTimer
       /\ attemptResult' = "WIN"
       /\ resultMessage' = "Finished"
       /\ resultTimestamp' = DateNow
       /\ bestAttemptTime' = IF attemptTimer < bestAttemptTime \/ bestAttemptTime = 0
                             THEN attemptTimer ELSE bestAttemptTime
       /\ bestAttemptHeight' = IF playerMaxHeight > bestAttemptHeight
                               THEN playerMaxHeight ELSE bestAttemptHeight
       /\ roundFinishers' = roundFinishers + 1
       /\ roundSpeedMultiplier' = roundFinishers' + 1
       /\ outbox' = IF isMultiplayerMode THEN outbox \cup {"PlayerFinished"} ELSE outbox
       /\ UNCHANGED <<attemptStartTime, attemptTimer>>

\* finishAttempt without the "round is active" guard.
finishAttempt_AnyPhase ==
  IF attemptState # "IN_PROGRESS"
  THEN UNCHANGED <<attemptVars, resultVars, roundFinishers, roundSpeedMultiplier, outbox>>
  ELSE /\ attemptState' = "FINISHED"
       /\ attemptFinishTime' = attemptTimer
       /\ attemptResult' = "WIN"
       /\ resultMessage' = "Finished"
       /\ resultTimestamp' = DateNow
       /\ bestAttemptTime' = IF attemptTimer < bestAttemptTime \/ bestAttemptTime = 0
                             THEN attemptTimer ELSE bestAttemptTime
       /\ bestAttemptHeight' = IF playerMaxHeight > bestAttemptHeight
                               THEN playerMaxHeight ELSE bestAttemptHeight
       /\ roundFinishers' = roundFinishers + 1
       /\ roundSpeedMultiplier' = roundFinishers' + 1
       /\ outbox' = IF isMultiplayerMode THEN outbox \cup {"PlayerFinished"} ELSE outbox
       /\ UNCHANGED <<attemptStartTime, attemptTimer>>

finishAttempt ==
  IF attemptState # "IN_PROGRESS" \/ roundState # "ACTIVE"
  THEN UNCHANGED <<attemptVars, resultVars, roundFinishers, roundSpeedMultiplier, outbox>>
  ELSE /\ attemptState' = "FINISHED"
       /\ attemptFinishTime' = attemptTimer
       /\ attemptResult' = "WIN"
       /\ resultMessage' = "Finished"
       /\ resultTimestamp' = DateNow
       /\ bestAttemptTime' = IF attemptTimer < bestAttemptTime \/ bestAttemptTime = 0
                             THEN attemptTimer ELSE bestAttemptTime
       /\ bestAttemptHeight' = IF playerMaxHeight > bestAttemptHeight
                               THEN playerMaxHeight ELSE bestAttemptHeight
       /\ roundFinishers' = roundFinishers + 1
       /\ roundSpeedMultiplier' = roundFinishers' + 1
       /\ outbox' = IF isMultiplayerMode THEN outbox \cup {"PlayerFinished"} ELSE outbox
       /\ UNCHANGED <<attemptStartTime, attemptTimer>>

\* dieAttempt with the "round is active" guard of finishAttempt.
dieAttempt_ActiveOnly ==
  IF attemptState # "IN_PROGRESS" \/ roundState # "ACTIVE"
  THEN UNCHANGED <<attemptVars, resultVars, outbox>>
  ELSE /\ attemptState' = "DIED"
       /\ attemptResult' = "DEATH"
       /\ resultMessage' = "Death"
       /\ resultTimestamp' = DateNow
       /\ bestAttemptHeight' = IF playerMaxHeight > bestAttemptHeight
                               THEN playerMaxHeight ELSE bestAttemptHeight
       /\ outbox' = IF isMultiplayerMode THEN outbox \cup {"PlayerDied"} ELSE outbox
       /\ UNCHANGED <<attemptStartTime, attemptTimer, attemptFinishTime, bestAttemptTime>>

dieAttempt ==
  IF attemptState # "IN_PROGRESS"
  THEN UNCHANGED <<attemptVars, resultVars, outbox>>
  ELSE /\ attemptState' = "DIED"
       /\ attemptResult' = "DEATH"
       /\ resultMessage' = "Death"
       /\ resultTimestamp' = DateNow
       /\ bestAttemptHeight' = IF playerMaxHeight > bestAttemptHeight
                               THEN playerMaxHeight ELSE bestAttemptHeight
       /\ outbox' = IF isMultiplayerMode THEN outbox \cup {"PlayerDied"} ELSE outbox
       /\ UNCHANGED <<attemptStartTime, attemptTimer, attemptFinishTime, bestAttemptTime>>

\* ---------------------------------------------------------------------
\* Frame loop: the engine runs the systems in registration order
\* (trigger detection, trackPlayerHeight, updateRoundTimer) once per frame.
\* ---------------------------------------------------------------------
\* isInsideBox(playerPos, box of the named trigger), for the position the
\* player has in the frame that starts
isInsideBox(zone) == playerZone' = zone

\* The trigger detection system calling the handler of a box in every frame
\* the player is inside it.
TriggerDetection_LevelTriggered(d, zone, y) ==
  /\ pc = "idle"
  /\ now' = now + d
  /\ frames' = frames + 1
  /\ playerZone' = zone
  /\ playerY' = y
  /\ pc' = "track"
  /\ inTriggerStart' = isInsideBox("Start")
  /\ inTriggerEnd' = isInsideBox("End")
  /\ inTriggerDeath' = isInsideBox("Death")
  /\ IF isInsideBox("Start")
     THEN /\ startAttempt
          /\ entered' = "Start"
          /\ UNCHANGED <<roundFinishers, roundSpeedMultiplier, outbox>>
     ELSE IF isInsideBox("End")
     THEN /\ finishAttempt
          /\ entered' = "End"
          /\ UNCHANGED playerMaxHeight
     ELSE IF isInsideBox("Death")
     THEN /\ dieAttempt
          /\ entered' = "Death"
          /\ UNCHANGED <<playerMaxHeight, roundFinishers, roundSpeedMultiplier>>
     ELSE /\ entered' = "None"
          /\ UNCHANGED <<attemptVars, resultVars, playerMaxHeight, roundFinishers,
                         roundSpeedMultiplier, outbox>>
  /\ UNCHANGED <<serverVars, mpVars, roundState, roundTimer, roundStartTime,
                 leaderboard, roundWinners, playerHeight, lastHeightUpdateTime,
                 broadcasts, lastTickTime>>
  /\ AttemptHist
  /\ PhaseHist
  /\ FinishHist

\* The engine starts a frame d ms after the previous one, with the player at
\* (zone, y), and runs the trigger detection system: its three blocks in order.
\* The boxes being disjoint, at most one of them is entered in a frame.
TriggerDetection(d, zone, y) ==
  /\ pc = "idle"
  /\ now' = now + d
  /\ frames' = frames + 1
  /\ playerZone' = zone
  /\ playerY' = y
  /\ pc' = "track"
  /\ inTriggerStart' = isInsideBox("Start")
  /\ inTriggerEnd' = isInsideBox("End")
  /\ inTriggerDeath' = isInsideBox("Death")
  /\ IF isInsideBox("Start") /\ ~inTriggerStart
     THEN /\ startAttempt
          /\ entered' = "Start"
          /\ UNCHANGED <<roundFinishers, roundSpeedMultiplier, outbox>>
     ELSE IF isInsideBox("End") /\ ~inTriggerEnd
     THEN /\ finishAttempt
          /\ entered' = "End"
          /\ UNCHANGED playerMaxHeight
     ELSE IF isInsideBox("Death") /\ ~inTriggerDeath
     THEN /\ dieAttempt
          /\ entered' = "Death"
          /\ UNCHANGED <<playerMaxHeight, roundFinishers, roundSpeedMultiplier>>
     ELSE /\ entered' = "None"
          /\ UNCHANGED <<attemptVars, resultVars, playerMaxHeight, roundFinishers,
                         roundSpeedMultiplier, outbox>>
  /\ UNCHANGED <<serverVars, mpVars, roundState, roundTimer, roundStartTime,
                 leaderboard, roundWinners, playerHeight, lastHeightUpdateTime,
                 broadcasts, lastTickTime>>
  /\ AttemptHist
  /\ PhaseHist
  /\ FinishHist

\* trackPlayerHeight sending the height without the throttle.
trackPlayerHeight_NoThrottle ==
  /\ pc = "track"
  /\ pc' = "timer"
  /\ playerHeight' = playerY
  /\ IF attemptState = "IN_PROGRESS"
     THEN /\ playerMaxHeight' = IF playerHeight' > playerMaxHeight
                                THEN playerHeight' ELSE playerMaxHeight
          /\ attemptTimer' = now - attemptStartTime
          /\ IF isMultiplayerMode
             THEN /\ outbox' = outbox \cup {"HeightUpdate"}
                  /\ lastHeightUpdateTime' = now
             ELSE UNCHANGED <<outbox, lastHeightUpdateTime>>
     ELSE UNCHANGED <<playerMaxHeight, attemptTimer, outbox, lastHeightUpdateTime>>
  /\ UNCHANGED <<serverVars, now, frames, mpVars, roundVars, attemptState, attemptStartTime,
                 attemptFinishTime, bestAttemptTime, bestAttemptHeight, resultVars,
                 posVars, triggerVars, broadcasts, entered, lastTickTime>>
  /\ AttemptHist
  /\ PhaseHist
  /\ FinishHist

\* trackPlayerHeight storing the sampled height as the maximum.
trackPlayerHeight_LastSample ==
  /\ pc = "track"
  /\ pc' = "timer"
  /\ playerHeight' = playerY
  /\ IF attemptState = "IN_PROGRESS"
     THEN /\ playerMaxHeight' = playerHeight'
          /\ attemptTimer' = now - attemptStartTime
          /\ IF isMultiplayerMode /\ now - lastHeightUpdateTime >= HEIGHT_UPDATE_INTERVAL
             THEN /\ outbox' = outbox \cup {"HeightUpdate"}
                  /\ lastHeightUpdateTime' = now
             ELSE UNCHANGED <<outbox, lastHeightUpdateTime>>
     ELSE UNCHANGED <<playerMaxHeight, attemptTimer, outbox, lastHeightUpdateTime>>
  /\ UNCHANGED <<serverVars, now, frames, mpVars, roundVars, attemptState, attemptStartTime,
                 attemptFinishTime, bestAttemptTime, bestAttemptHeight, resultVars,
                 posVars, triggerVars, broadcasts, entered, lastTickTime>>
  /\ AttemptHist
  /\ PhaseHist
  /\ FinishHist

trackPlayerHeight ==
  /\ pc = "track"
  /\ pc' = "timer"
  /\ playerHeight' = playerY
  /\ IF attemptState = "IN_PROGRESS"
     THEN /\ playerMaxHeight' = IF playerHeight' > playerMaxHeight
                                THEN playerHeight' ELSE playerMaxHeight
          /\ attemptTimer' = now - attemptStartTime
          /\ IF isMultiplayerMode /\ now - lastHeightUpdateTime >= HEIGHT_UPDATE_INTERVAL
             THEN /\ outbox' = outbox \cup {"HeightUpdate"}
                  /\ lastHeightUpdateTime' = now
             ELSE UNCHANGED <<outbox, lastHeightUpdateTime>>
     ELSE UNCHANGED <<playerMaxHeight, attemptTimer, outbox, lastHeightUpdateTime>>
  /\ UNCHANGED <<serverVars, now, frames, mpVars, roundVars, attemptState, attemptStartTime,
                 attemptFinishTime, bestAttemptTime, bestAttemptHeight, resultVars,
                 posVars, triggerVars, broadcasts, entered, lastTickTime>>
  /\ AttemptHist
  /\ PhaseHist
  /\ FinishHist

updateRoundTimer ==
  /\ pc = "timer"
  /\ pc' = "idle"
  /\ entered' = "None"
  /\ outbox' = {}
  /\ lastTickTime' = now
  /\ IF roundState = "ENDING"
     THEN /\ IF now - resultTimestamp >= ENDING_DISPLAY * 1000
             THEN /\ roundState' = "BREAK"
                  /\ resultMessage' = "NextRoundIn10"
                  /\ resultTimestamp' = now
             ELSE UNCHANGED <<roundState, resultMessage, resultTimestamp>>
          /\ UNCHANGED <<roundTimer, roundSpeedMultiplier, roundStartTime, roundFinishers,
                         leaderboard, roundWinners, attemptVars, attemptResult, trackVars>>
     ELSE IF roundState = "BREAK"
     THEN IF ~isMultiplayerMode /\ now - resultTimestamp >= 10 * 1000
          THEN startNewRound
          ELSE UNCHANGED <<roundVars, attemptVars, resultVars, trackVars>>
     ELSE IF roundState = "ACTIVE" /\ ~isMultiplayerMode
     THEN /\ roundTimer' = Max(0, 420 * 1000 - (now - roundStartTime) * roundSpeedMultiplier)
          /\ IF roundTimer' <= 0
             THEN endRound
             ELSE UNCHANGED <<roundState, resultMessage, resultTimestamp>>
          /\ UNCHANGED <<roundSpeedMultiplier, roundStartTime, roundFinishers,
                         leaderboard, roundWinners, attemptVars, attemptResult, trackVars>>
     ELSE UNCHANGED <<roundVars, attemptVars, resultVars, trackVars>>
  /\ UNCHANGED <<serverVars, now, frames, mpVars, posVars, triggerVars, broadcasts>>
  /\ AttemptHist
  /\ PhaseHist
  /\ FinishHist

\* ---------------------------------------------------------------------
\* Callbacks registered with the multiplayer module.  setOnServerTowerReady,
\* setOnTimerUpdate and setOnRoundChanged are registered only when
\* isMultiplayerMode holds; setOnLeaderboardUpdate and setOnGameEnded always,
\* and the server invokes them once a connection exists.
\* ---------------------------------------------------------------------
\* The TowerReady callback clearing the personal best with the attempt.
OnServerTowerReady_ResetBest ==
  /\ pc = "idle"
  /\ isMultiplayerMode /\ serverConnected
  /\ broadcasts < MaxBroadcasts
  /\ broadcasts' = broadcasts + 1
  /\ attemptState' = "NOT_STARTED"
  /\ attemptTimer' = 0
  /\ playerMaxHeight' = 0
  /\ attemptResult' = "null"
  /\ bestAttemptTime' = 0
  /\ bestAttemptHeight' = 0
  /\ roundState' = "ACTIVE"
  /\ resultMessage' = "NewRound"
  /\ resultTimestamp' = now
  /\ UNCHANGED <<serverVars, loopVars, mpVars, roundTimer, roundSpeedMultiplier,
                 roundStartTime, roundFinishers, leaderboard, roundWinners,
                 attemptStartTime, attemptFinishTime,
                 playerHeight, lastHeightUpdateTime, posVars, triggerVars, outbox,
                 entered, lastTickTime>>
  /\ AttemptHist
  /\ PhaseHist
  /\ FinishHist

OnServerTowerReady ==
  /\ pc = "idle"
  /\ isMultiplayerMode /\ serverConnected
  /\ broadcasts < MaxBroadcasts
  /\ broadcasts' = broadcasts + 1
  /\ attemptState' = "NOT_STARTED"
  /\ attemptTimer' = 0
  /\ playerMaxHeight' = 0
  /\ attemptResult' = "null"
  /\ roundState' = "ACTIVE"
  /\ resultMessage' = "NewRound"
  /\ resultTimestamp' = now
  /\ UNCHANGED <<serverVars, loopVars, mpVars, roundTimer, roundSpeedMultiplier,
                 roundStartTime, roundFinishers, leaderboard, roundWinners,
                 attemptStartTime, attemptFinishTime, bestAttemptTime, bestAttemptHeight,
                 playerHeight, lastHeightUpdateTime, posVars, triggerVars, outbox,
                 entered, lastTickTime>>
  /\ AttemptHist
  /\ PhaseHist
  /\ FinishHist

\* remaining is in seconds.
OnTimerUpdate(remaining, speedMult) ==
  /\ pc = "idle"
  /\ isMultiplayerMode /\ serverConnected
  /\ broadcasts < MaxBroadcasts
  /\ broadcasts' = broadcasts + 1
  /\ roundTimer' = remaining * 1000
  /\ roundSpeedMultiplier' = speedMult
  /\ IF remaining <= 0 /\ roundState = "ACTIVE"
     THEN /\ roundState' = "BREAK"
          /\ resultMessage' = "RoundEndedNextSoon"
          /\ resultTimestamp' = now
          /\ UNCHANGED attemptResult
     ELSE UNCHANGED <<roundState, resultVars>>
  /\ UNCHANGED <<serverVars, loopVars, mpVars, roundStartTime, roundFinishers,
                 leaderboard, roundWinners, attemptVars, trackVars, posVars, triggerVars,
                 outbox, entered, lastTickTime>>
  /\ AttemptHist
  /\ PhaseHist
  /\ FinishHist

OnRoundChanged(isBreak) ==
  /\ pc = "idle"
  /\ isMultiplayerMode /\ serverConnected
  /\ broadcasts < MaxBroadcasts
  /\ broadcasts' = broadcasts + 1
  /\ roundState' = IF isBreak THEN "BREAK" ELSE roundState
  /\ UNCHANGED <<serverVars, loopVars, mpVars, roundTimer, roundSpeedMultiplier,
                 roundStartTime, roundFinishers, leaderboard, roundWinners,
                 attemptVars, resultVars, trackVars, posVars, triggerVars, outbox,
                 entered, lastTickTime>>
  /\ AttemptHist
  /\ PhaseHist
  /\ FinishHist

OnLeaderboardUpdate(players) ==
  /\ pc = "idle"
  /\ serverConnected
  /\ broadcasts < MaxBroadcasts
  /\ broadcasts' = broadcasts + 1
  /\ leaderboard' = players
  /\ UNCHANGED <<serverVars, loopVars, mpVars, roundState, roundTimer, roundSpeedMultiplier,
                 roundStartTime, roundFinishers, roundWinners,
                 attemptVars, resultVars, trackVars, posVars, triggerVars, outbox, histVars>>

OnGameEnded(winners) ==
  /\ pc = "idle"
  /\ serverConnected
  /\ broadcasts < MaxBroadcasts
  /\ broadcasts' = broadcasts + 1
  /\ roundState' = "ENDING"
  /\ roundWinners' = winners
  /\ resultMessage' = "RoundComplete"
  /\ resultTimestamp' = now
  /\ UNCHANGED <<serverVars, loopVars, mpVars, roundTimer, roundSpeedMultiplier,
                 roundStartTime, roundFinishers, leaderboard,
                 attemptVars, attemptResult, trackVars, posVars, triggerVars, outbox,
                 entered, lastTickTime>>
  /\ AttemptHist
  /\ PhaseHist
  /\ FinishHist

\* Outcomes of main() explored: every outcome of initMultiplayer() and of
\* getRoundInfo(); the outer catch when no connection was made.
MainInputs == {<<outcome, roundInfoThrows, initError>> :
                 outcome \in {"connected", "offline", "throws"},
                 roundInfoThrows \in BOOLEAN, initError \in BOOLEAN}
              \ {<<"connected", b, TRUE>> : b \in BOOLEAN}

\* Frame intervals explored in the current mode.
FrameDeltas == IF isMultiplayerMode THEN ConnectedDeltas ELSE Deltas

Next ==
  \/ \E in \in MainInputs : Main(in[1], in[2], in[3])
  \/ \E d \in PendingDeltas, pos \in PendingPositions : PendingFrame(d, pos[1], pos[2])
  \/ /\ frames < MaxFrames
     /\ \E d \in FrameDeltas, pos \in Positions : TriggerDetection(d, pos[1], pos[2])
  \/ trackPlayerHeight
  \/ updateRoundTimer
  \/ OnServerTowerReady
  \/ \E u \in TimerUpdates : OnTimerUpdate(u[1], u[2])
  \/ \E isBreak \in BOOLEAN : OnRoundChanged(isBreak)
  \/ \E players \in Boards : OnLeaderboardUpdate(players)
  \/ \E winners \in Boards : OnGameEnded(winners)

Spec == Init /\ [][Next]_vars

\* A connected session followed over more frames: the connection succeeds,
\* the frames come at the connected intervals, and the authority announces
\* new rounds.
NextConnected ==
  \/ Main("connected", FALSE, FALSE)
  \/ /\ frames < MaxSessionFrames
     /\ \E d \in ConnectedDeltas, pos \in Positions : TriggerDetection(d, pos[1], pos[2])
  \/ trackPlayerHeight
  \/ updateRoundTimer
  \/ OnServerTowerReady

SpecConnected == Init /\ [][NextConnected]_vars

\* A standalone session followed up to LiveHorizon: the connection attempt
\* threw, frames come half a round or a whole round apart, with the player
\* in any zone.  The engine keeps running frames and, in each frame, its systems.
LiveDeltas == {(ROUND_DURATION \div 2) * 1000, ROUND_DURATION * 1000}
LivePositions == {<<"None", 1>>, <<"Start", 0>>, <<"End", 1>>, <<"Death", 0>>}

NextLive ==
  \/ \E roundInfoThrows \in BOOLEAN : Main("throws", roundInfoThrows, FALSE)
  \/ \E d \in LiveDeltas, pos \in LivePositions :
       /\ now + d <= LiveHorizon * 1000
       /\ TriggerDetection(d, pos[1], pos[2])
  \/ trackPlayerHeight
  \/ updateRoundTimer

\* Time two frames can take: a whole round and half a round.
LiveMargin == (ROUND_DURATION + ROUND_DURATION \div 2) * 1000

SpecLive == Init /\ [][NextLive]_vars /\ WF_vars(NextLive)

\* ---------------------------------------------------------------------
\* Steps named by the properties
\* ---------------------------------------------------------------------
\* The trigger detection system runs and the player crosses into a box.
StartEntry == pc = "idle" /\ pc' = "track" /\ ~inTriggerStart /\ inTriggerStart'
EndEntry == pc = "idle" /\ pc' = "track" /\ ~inTriggerEnd /\ inTriggerEnd'
DeathEntry == pc = "idle" /\ pc' = "track" /\ ~inTriggerDeath /\ inTriggerDeath'

\* ---------------------------------------------------------------------
\* Properties
\* ---------------------------------------------------------------------

\* C1: for every epoch second t, getCurrentRoundInfo gives the round whose
\* 430 s window holds t, BREAK exactly from second 420 of the window on, and
\* the time left to the end of the phase (420 at the first instant of a
\* window); t = 0, 425 and 430 give 0/ACTIVE/420, 0/BREAK/5 and 1/ACTIVE/420.
C1_ClockOracle ==
  info # NoInfo =>
    LET t == info.at \div 1000
        progress == t - 430 * info.roundNumber
    IN /\ info.roundNumber >= 0
       /\ 0 <= progress /\ progress < 430
       /\ info.isBreak = (progress >= 420)
       /\ info.remainingTime = (IF info.isBreak THEN 430 ELSE 420) - progress
       /\ (progress = 0 => ~info.isBreak /\ info.remainingTime = 420)
       /\ (t = 0 => info.roundNumber = 0 /\ ~info.isBreak /\ info.remainingTime = 420)
       /\ (t = 425 => info.roundNumber = 0 /\ info.isBreak /\ info.remainingTime = 5)
       /\ (t = 430 => info.roundNumber = 1 /\ ~info.isBreak /\ info.remainingTime = 420)

\* The status endpoint has answered at the first second of a break.
C1_Witness == info # NoInfo /\ info.at \div 1000 = 420 /\ info.isBreak /\ info.remainingTime = 10

\* C2: a Start-zone entry while the attempt is FINISHED leaves attemptState
\* FINISHED and startTime, maxHeight and finishTime unchanged, in every round
\* phase; a FINISHED attempt leaves FINISHED only by a round-boundary reset.
C2_StartWhileFinished ==
  [][ /\ (StartEntry /\ attemptState = "FINISHED") =>
           /\ attemptState' = "FINISHED"
           /\ UNCHANGED <<attemptStartTime, playerMaxHeight, attemptFinishTime>>
      /\ (attemptState = "FINISHED" /\ attemptState' # "FINISHED") =>
           (RoundReset /\ attemptState' = "NOT_STARTED")
    ]_vars

\* The player has just re-entered the Start zone with a finished attempt.
C2_Witness ==
  /\ pc = "track" /\ entered = "Start"
  /\ attemptState = "FINISHED" /\ resultMessage = "AlreadyFinished"

\* C3: every round-boundary reset, and every step that takes the round from
\* another phase to ACTIVE, leaves attemptState = NOT_STARTED.
C3_ResetAttempt ==
  [][ /\ RoundReset => attemptState' = "NOT_STARTED"
      /\ (pc # "boot" /\ roundState # "ACTIVE" /\ roundState' = "ACTIVE") =>
           attemptState' = "NOT_STARTED"
    ]_vars

\* A new round has started locally while the player was mid-climb.
C3_Witness ==
  /\ attemptState = "NOT_STARTED" /\ prevAttemptState = "IN_PROGRESS"
  /\ resultMessage = "NewRoundStarted"

\* C4: a Finish-zone entry finishes the attempt when it is IN_PROGRESS in an
\* ACTIVE round; in every other case it changes neither attemptState,
\* finishTime, finisherCount, speedMultiplier nor the personal best, and
\* sends no PlayerFinished.
C4_FinishIgnored ==
  [][ EndEntry =>
        IF attemptState = "IN_PROGRESS" /\ roundState = "ACTIVE"
        THEN attemptState' = "FINISHED"
        ELSE /\ UNCHANGED <<attemptState, attemptFinishTime, roundFinishers,
                            roundSpeedMultiplier, bestAttemptTime, bestAttemptHeight>>
             /\ "PlayerFinished" \notin outbox'
    ]_vars

\* The player has just entered the Finish zone mid-climb, outside an ACTIVE round.
C4_Witness ==
  /\ pc = "track" /\ entered = "End"
  /\ attemptState = "IN_PROGRESS" /\ roundState # "ACTIVE"

\* C5: a Start-zone entry with the attempt NOT_STARTED or DIED starts the
\* attempt exactly when the round is ACTIVE (startTime = now, maxHeight = the
\* current height, result cleared); in ENDING or BREAK it changes nothing.
C5_StartAttempt ==
  [][ (StartEntry /\ attemptState \in {"NOT_STARTED", "DIED"}) =>
        IF roundState = "ACTIVE"
        THEN /\ attemptState' = "IN_PROGRESS"
             /\ attemptStartTime' = now'
             /\ playerMaxHeight' = playerHeight
             /\ attemptResult' = "null"
        ELSE UNCHANGED <<attemptVars, resultVars, playerMaxHeight>>
    ]_vars

\* The player has just restarted after a death.
C5_Witness ==
  /\ pc = "track" /\ entered = "Start"
  /\ attemptState = "IN_PROGRESS" /\ prevAttemptState = "DIED"
  /\ attemptStartTime = now

\* C6: a timer tick that finds the round in ENDING, 3 seconds or more after
\* the phase became ENDING, moves it to BREAK, whatever zone the player
\* entered in the meantime.
C6_EndingLastsThreeSeconds ==
  [][ (pc = "timer" /\ roundState = "ENDING" /\ now - phaseSince >= ENDING_DISPLAY * 1000)
        => roundState' = "BREAK"
    ]_vars

\* C7: in standalone mode a timer tick that finds the round in BREAK, 10
\* seconds or more after the phase became BREAK, starts the next round,
\* whatever zone the player entered in the meantime.
C7_BreakLastsTenSeconds ==
  [][ (pc = "timer" /\ ~isMultiplayerMode /\ roundState = "BREAK"
         /\ now - phaseSince >= BREAK_DURATION * 1000)
        => roundState' = "ACTIVE"
    ]_vars

\* C8: every round-boundary reset (startNewRound, TowerReady broadcast) leaves
\* finisherCount = 0, speedMultiplier = 1 and leaderboard and winners empty.
C8_RoundStateReset ==
  [][ RoundReset =>
        /\ roundFinishers' = 0
        /\ roundSpeedMultiplier' = 1
        /\ leaderboard' = <<>>
        /\ roundWinners' = <<>>
    ]_vars

\* C9: an accepted finish leaves speedMultiplier = finisherCount + 1, which is
\* 2 for the first finish accepted since the start of the round and 3 for the
\* second; a Death-zone entry changes neither finisherCount nor speedMultiplier.
C9_MultiplierTracksFinishers ==
  [][ /\ (attemptState # "FINISHED" /\ attemptState' = "FINISHED") =>
           /\ roundSpeedMultiplier' = roundFinishers' + 1
           /\ roundSpeedMultiplier' = finishesThisRound' + 1
      /\ DeathEntry => UNCHANGED <<roundFinishers, roundSpeedMultiplier>>
    ]_vars

\* C10: in standalone mode, a tick of an ACTIVE round that follows another tick
\* lowers the countdown by the time since that tick times the current
\* speedMultiplier, clamped at 0.
C10_TimerDecrement ==
  [][ (pc = "timer" /\ ~isMultiplayerMode /\ roundState = "ACTIVE" /\ lastTickTime >= 0)
        => roundTimer' = Max(0, roundTimer - (now - lastTickTime) * roundSpeedMultiplier)
    ]_vars

\* C11: a session that runs without the transport (the connection attempt
\* threw, so the session drives its own round) has, after every timer tick,
\* the phase of the clock oracle at the wall clock and, while ACTIVE, the
\* oracle's remaining time.
C11_StandaloneFollowsOracle ==
  (pc = "idle" /\ ~isMultiplayerMode /\ lastTickTime = now) =>
    LET oracle == getCurrentRoundInfo(now)
    IN /\ (roundState = "ACTIVE") = ~oracle.isBreak
       /\ roundState = "ACTIVE" => roundTimer = oracle.remainingTime * 1000

\* C12: once main() has settled the mode, the session is in multiplayer mode
\* only if the connection succeeded; a session whose connection attempt
\* reported "not connected" or threw is in standalone mode.
C12_ModeMatchesConnection ==
  pc # "boot" => (isMultiplayerMode => serverConnected)

\* C13: every frame of the engine, also one that runs while the connection
\* attempt is pending, runs zone detection: a frame in which the player walks
\* into the Start zone of an ACTIVE round with no attempt started starts the
\* attempt.
C13_FramesRunWhilePending ==
  [][ (frames' = frames + 1 /\ playerZone # "Start" /\ playerZone' = "Start"
         /\ roundState = "ACTIVE" /\ attemptState = "NOT_STARTED")
        => attemptState' = "IN_PROGRESS"
    ]_vars

\* C14: an accepted Finish-zone entry captures as finishTime the time from
\* the attempt's startTime to the frame of the entry.
C14_FinishTimeIsElapsed ==
  [][ (EndEntry /\ attemptState = "IN_PROGRESS" /\ roundState = "ACTIVE")
        => attemptFinishTime' = now' - attemptStartTime
    ]_vars

\* C15: the first finish accepted in the session sets bestFinishTime to its
\* finish time; from then on bestFinishTime never increases.
C15_BestTimeImproves ==
  [][ /\ (~everFinished /\ attemptState # "FINISHED" /\ attemptState' = "FINISHED")
           => bestAttemptTime' = attemptFinishTime'
      /\ everFinished => bestAttemptTime' <= bestAttemptTime
    ]_vars

C17_DeathEntry ==
  [][ DeathEntry =>
        IF attemptState = "IN_PROGRESS"
        THEN /\ attemptState' = "DIED"
             /\ bestAttemptHeight' = Max(bestAttemptHeight, playerMaxHeight)
             /\ UNCHANGED <<bestAttemptTime, roundFinishers, roundSpeedMultiplier, roundState>>
        ELSE /\ UNCHANGED <<attemptVars, resultVars, roundVars, playerMaxHeight>>
             /\ "PlayerDied" \notin outbox'
    ]_vars

\* The player has just died outside an ACTIVE round, with a new best height.
C17_Witness ==
  /\ pc = "track" /\ entered = "Death"
  /\ attemptState = "DIED" /\ prevAttemptState = "IN_PROGRESS"
  /\ roundState # "ACTIVE"
  /\ bestAttemptHeight > 0 /\ bestAttemptHeight = playerMaxHeight

\* C18: a position sample taken while the attempt is IN_PROGRESS leaves
\* maxHeight at least its previous value and at least the sampled height.
C18_MaxHeightMonotone ==
  [][ (pc = "track" /\ pc' = "timer" /\ attemptState = "IN_PROGRESS") =>
        /\ playerHeight' = playerY
        /\ playerMaxHeight' >= playerMaxHeight
        /\ playerMaxHeight' >= playerHeight'
        /\ playerMaxHeight' \in {playerMaxHeight, playerHeight'}
    ]_vars

\* A sample below the maximum has been taken during an attempt.
C18_Witness ==
  /\ pc = "timer" /\ attemptState = "IN_PROGRESS"
  /\ playerHeight < playerMaxHeight

\* C19: a HeightUpdate is sent only when HEIGHT_UPDATE_INTERVAL or more has
\* passed since the previous send, whose time lastHeightUpdateTime holds: a
\* send records its time there and no other step, in any attempt or round,
\* changes it.
C19_HeightUpdateThrottle ==
  [][ IF pc = "track" /\ "HeightUpdate" \in outbox'
      THEN /\ now - lastHeightUpdateTime >= HEIGHT_UPDATE_INTERVAL
           /\ lastHeightUpdateTime' = now
      ELSE lastHeightUpdateTime' = lastHeightUpdateTime
    ]_vars

\* A sample of an attempt was taken less than the interval after a send, and
\* was not sent.
C19_Witness ==
  /\ pc = "timer" /\ attemptState = "IN_PROGRESS" /\ isMultiplayerMode
  /\ lastHeightUpdateTime > 0 /\ now - lastHeightUpdateTime < HEIGHT_UPDATE_INTERVAL
  /\ now > lastHeightUpdateTime
  /\ "HeightUpdate" \notin outbox

\* C20: in a frame the handler of a zone is invoked exactly when the player
\* is inside the zone and was outside it in the previous frame of the
\* detection system (or there was none); a frame in which the player stays
\* inside the same zone changes nothing of the attempt, its result or the
\* finisher count.
C20_EdgeTriggered ==
  [][ (pc = "idle" /\ pc' = "track") =>
        /\ \A z \in {"Start", "End", "Death"} :
             (entered' = z) <=> (playerZone' = z /\ (lastTickTime < 0 \/ playerZone # z))
        /\ (lastTickTime >= 0 /\ playerZone' = playerZone) =>
             UNCHANGED <<attemptVars, resultVars, roundFinishers, roundSpeedMultiplier,
                         playerMaxHeight, outbox>>
    ]_vars

\* The player has stayed inside the Start zone for another frame of an
\* attempt, and the attempt was not started again.
C20_Witness ==
  /\ pc = "track" /\ playerZone = "Start" /\ inTriggerStart /\ entered = "None"
  /\ attemptState = "IN_PROGRESS" /\ attemptStartTime < now
  /\ roundState = "ACTIVE"

\* C21: matchMaker.createRoom is called at most once; after a failure the
\* error is logged, there is no room, the process is still running (and
\* answers the status endpoint), and no further attempt is scheduled.
C21_RoomCreatedOnce ==
  /\ createRoomCalls <= 1
  /\ running
  /\ roomResult = "scheduled" <=> createRoomCalls = 0
  /\ roomResult = "failed" => errorLogged
  /\ errorLogged => roomResult = "failed"

\* The room creation failed and the status endpoint answered afterwards.
C21_Witness ==
  /\ roomResult = "failed" /\ errorLogged /\ createRoomCalls = 1
  /\ info # NoInfo /\ info.at = serverNow

\* C22: once main() has set the initial phase, every change of the round
\* phase is ACTIVE -> ENDING, ENDING -> BREAK or BREAK -> ACTIVE, and the
\* phase becomes ENDING only with the countdown at zero.
C22_PhaseOrder ==
  [][ (pc # "boot" /\ roundState' # roundState) =>
        /\ <<roundState, roundState'>> \in
             {<<"ACTIVE", "ENDING">>, <<"ENDING", "BREAK">>, <<"BREAK", "ACTIVE">>}
        /\ roundState' = "ENDING" => roundTimer' = 0
    ]_vars

\* C23: since the last round-boundary reset at most one finish has been
\* accepted, and PlayerFinished is sent only in the step that accepts a
\* finish; in standalone mode finisherCount is 1 if the attempt is FINISHED
\* and 0 otherwise, and speedMultiplier is finisherCount + 1, at most 2.
C23_OneFinishPerRound ==
  [][ /\ finishesThisRound' <= 1
      /\ ("PlayerFinished" \in outbox' /\ "PlayerFinished" \notin outbox) =>
           (attemptState = "IN_PROGRESS" /\ attemptState' = "FINISHED")
      /\ ~isMultiplayerMode' =>
           /\ roundFinishers' = (IF attemptState' = "FINISHED" THEN 1 ELSE 0)
           /\ roundSpeedMultiplier' = roundFinishers' + 1
           /\ roundSpeedMultiplier' <= 2
    ]_vars

\* In standalone mode the player, having finished, has gone back to the
\* Start zone and the Finish zone again in the same round.
C23_Witness ==
  /\ ~isMultiplayerMode /\ pc = "track" /\ entered = "End"
  /\ attemptState = "FINISHED" /\ prevAttemptState = "IN_PROGRESS"
  /\ attemptResult = "WIN" /\ resultTimestamp < now
  /\ roundFinishers = 1 /\ roundSpeedMultiplier = 2 /\ finishesThisRound = 1

\* C24: in a standalone session, whatever zones the player enters, an ACTIVE
\* round is followed by ENDING, ENDING by BREAK and BREAK by a new ACTIVE
\* round, provided the time the phase can take (a whole round for ACTIVE, two
\* frames for ENDING and for BREAK) is left before the horizon.
C24_RoundCycleProgresses ==
  /\ (pc # "boot" /\ ~isMultiplayerMode /\ roundState = "ACTIVE"
        /\ now + ROUND_DURATION * 1000 <= LiveHorizon * 1000)
       ~> roundState = "ENDING"
  /\ (pc # "boot" /\ ~isMultiplayerMode /\ roundState = "ENDING"
        /\ now + LiveMargin <= LiveHorizon * 1000)
       ~> roundState = "BREAK"
  /\ (pc # "boot" /\ ~isMultiplayerMode /\ roundState = "BREAK"
        /\ now + LiveMargin <= LiveHorizon * 1000)
       ~> roundState = "ACTIVE"

C24_Witness ==
  /\ ~isMultiplayerMode /\ pc = "timer" /\ roundState = "ENDING"
  /\ attemptState = "DIED" /\ prevAttemptState = "IN_PROGRESS"
  /\ entered = "Death" /\ resultTimestamp = now /\ phaseSince < now
  /\ now + LiveMargin <= LiveHorizon * 1000

\* C25: a Start-zone entry while the attempt is already IN_PROGRESS leaves
\* attemptState, attemptStartTime, attemptTimer and playerMaxHeight unchanged,
\* so attemptStartTime changes only on a start from NOT_STARTED or DIED.
C25_StartWhileInProgress ==
  [][ /\ (StartEntry /\ attemptState = "IN_PROGRESS") =>
           UNCHANGED <<attemptState, attemptStartTime, attemptTimer,
                       playerMaxHeight>>
      /\ (pc # "boot" /\ attemptStartTime' # attemptStartTime) =>
           /\ attemptState \in {"NOT_STARTED", "DIED"}
           /\ attemptState' = "IN_PROGRESS"
    ]_vars

====
